---- MODULE Spec2Model ----
(***************************************************************************)
(* Control flow of train_rnn.py: main() with its epoch/batch loop, the     *)
(* checkpoint writer, the metric logger, train_step and valid_step.        *)
(*                                                                         *)
(* Tensors are abstracted to what the loop's control flow can observe:     *)
(*   params     number of optimizer updates applied to the model           *)
(*   grad       set of train_step calls whose loss has been accumulated    *)
(*              in the parameters' .grad buffers                           *)
(*   batches    by their size                                              *)
(*   metrics    by the call that produced them (global step and the        *)
(*              parameter version they were computed on)                   *)
(* The datasets and the configuration object are inputs: every combination *)
(* within the bounds below is an initial state.                            *)
(***************************************************************************)
EXTENDS Integers, Sequences, FiniteSets, TLC

\* ---- bounds of the explored inputs -------------------------------------
MaxEpochs == 2
MaxTrainLen == 6
MaxValidLen == 4
MaxBatchSize == 4
MaxInterval == 3

VARIABLES
  \* configuration and data sets (lines 24-37)
  num_epochs, summary_step, ckpt_step, batch_size, train_set, valid_set,
  num_batch,
  \* position of main()
  pc, err,
  \* loop state
  range_pos, enum_pos, remaining, epoch_idx, iter_idx, global_step, data,
  \* model and optimizer
  mode, params, grad, opt_steps,
  \* values returned by the two step functions
  train_out, valid_out,
  \* outputs
  files, log, printed,
  \* history: calls made so far
  steps, saves, updates, valid_draws, valid_calls

cfgvars == <<num_epochs, summary_step, ckpt_step, batch_size, train_set, valid_set>>
loopvars == <<range_pos, enum_pos, remaining, epoch_idx, iter_idx, global_step>>
modelvars == <<mode, params, grad, opt_steps>>
outvars == <<files, log, printed>>
histvars == <<steps, saves, updates, valid_draws, valid_calls>>
vars == <<cfgvars, num_batch, pc, err, loopvars, data, modelvars, train_out,
          valid_out, outvars, histvars>>

Unassigned == [step |-> -1, params |-> -1]
NoFile == <<>>

Min(a, b) == IF a < b THEN a ELSE b

\* ---- torch.utils.data ---------------------------------------------------

\* len(DataLoader) with drop_last=False: ceil(n / batch_size)
LoaderLenFloor(n, bs) == n \div bs
LoaderLen(n, bs) == (n + bs - 1) \div bs

\* size of the next batch a loader yields when rem examples are left in the
\* epoch (0: the iterator is exhausted); drop_last=False keeps a partial batch
NextBatchDropLast(rem, bs) == IF rem >= bs THEN bs ELSE 0
NextBatch(rem, bs) == Min(rem, bs)

\* RandomSampler(valid_set, replacement=True) draws len(valid_set) indices per
\* pass; BatchSampler(batch_size, drop_last=False) groups them: size of the
\* first batch of a pass over valid_loader (0: the pass yields nothing)
ValidFirstBatchFour(n, bs) == Min(n, 4)
ValidFirstBatchDropLast(n, bs) == NextBatchDropLast(n, bs)
ValidFirstBatch(n, bs) == NextBatch(n, bs)

\* RandomSampler refuses a data source of length 0 (num_samples must be a
\* positive integer): shuffle=True on line 38 and the sampler of line 39
LoadersConstructible == train_set > 0 /\ valid_set > 0

\* ---- checkpoint name: '%s_%s-%s.ckpt' % (global_step, epoch_idx, iter_idx)

DigitChar(d) == <<"0", "1", "2", "3", "4", "5", "6", "7", "8", "9">>[d + 1]

RECURSIVE Str(_)
Str(n) == IF n < 10 THEN <<DigitChar(n)>>
          ELSE Str(n \div 10) \o <<DigitChar(n % 10)>>

CkptNameEpochOnly(g, e, i) == Str(e) \o <<".ckpt">>
CkptName(g, e, i) == Str(g) \o <<"_">> \o Str(e) \o <<"-">> \o Str(i) \o <<".ckpt">>

\* ---- triggers -----------------------------------------------------------

CkptDue(g) == g % ckpt_step = 0

SummaryDueCkptStep(g) == g % ckpt_step = 0
SummaryDue(g) == g % summary_step = 0

\* ---- model / optimizer primitives ---------------------------------------

\* optimizer.zero_grad(): clears every accumulated gradient
zero_grad_noop(gr) == gr
zero_grad(gr) == {}

\* loss.backward() of train_step call k: accumulates into .grad
backward(gr, k) == gr \cup {k}

\* model.train(): switches the module to training mode
model_train_missing(m) == m
model_train(m) == "train"

\* model.eval(): switches the module to evaluation mode
model_eval(m) == "eval"

\* model.state_dict(): the current parameters
state_dict == params

\* ---- Init ---------------------------------------------------------------

Init ==
  /\ num_epochs \in 0..MaxEpochs
  /\ summary_step \in 1..MaxInterval
  /\ ckpt_step \in 1..MaxInterval
  /\ batch_size \in 1..MaxBatchSize
  /\ train_set \in 0..MaxTrainLen
  /\ valid_set \in 0..MaxValidLen
  /\ num_batch = 0
  /\ pc = "setup" /\ err = "none"
  /\ range_pos = 0 /\ enum_pos = 0 /\ remaining = 0
  /\ epoch_idx = -1 /\ iter_idx = -1 /\ global_step = -1 /\ data = 0
  /\ mode = "train" /\ params = 0 /\ grad = {} /\ opt_steps = 0
  /\ train_out = Unassigned /\ valid_out = Unassigned
  /\ files = NoFile /\ log = <<>> /\ printed = <<>>
  /\ steps = <<>> /\ saves = <<>> /\ updates = <<>>
  /\ valid_draws = 0 /\ valid_calls = 0

\* ---- main(): setup (lines 21-51) ----------------------------------------

Setup ==
  /\ pc = "setup"
  /\ IF LoadersConstructible
       THEN /\ num_batch' = LoaderLen(train_set, batch_size)
            /\ pc' = "epoch"
            /\ err' = err
       ELSE /\ num_batch' = num_batch
            /\ pc' = "failed"
            /\ err' = "ValueError"
  /\ UNCHANGED <<cfgvars, loopvars, data, modelvars, train_out, valid_out,
                 outvars, histvars>>

\* for epoch_idx in range(num_epochs): (line 55)
EpochNext ==
  /\ pc = "epoch"
  /\ IF range_pos < num_epochs
       THEN /\ epoch_idx' = range_pos
            /\ range_pos' = range_pos + 1
            /\ remaining' = train_set
            /\ enum_pos' = 0
            /\ pc' = "iter"
       ELSE /\ pc' = "done"
            /\ UNCHANGED <<epoch_idx, range_pos, remaining, enum_pos>>
  /\ UNCHANGED <<cfgvars, num_batch, err, iter_idx, global_step, data,
                 modelvars, train_out, valid_out, outvars, histvars>>

\* for iter_idx, (data, target) in enumerate(train_loader): and line 57
IterNext ==
  /\ pc = "iter"
  /\ LET b == NextBatch(remaining, batch_size) IN
     IF b > 0
       THEN /\ data' = b
            /\ remaining' = remaining - b
            /\ iter_idx' = enum_pos
            /\ enum_pos' = enum_pos + 1
            /\ global_step' = num_batch * epoch_idx + enum_pos
            /\ steps' = Append(steps, num_batch * epoch_idx + enum_pos)
            /\ pc' = "train_step"
       ELSE /\ pc' = "epoch"
            /\ UNCHANGED <<data, remaining, iter_idx, enum_pos, global_step, steps>>
  /\ UNCHANGED <<cfgvars, num_batch, err, range_pos, epoch_idx, modelvars,
                 train_out, valid_out, outvars, saves, updates, valid_draws,
                 valid_calls>>

\* ---- train_step (lines 88-101) ------------------------------------------

\* ordinal of the train_step call in progress (1 for the first call)
TrainCall == Len(updates) + 1

\* lines 89-96: model.train(), forward pass, loss and accuracy
TrainForward ==
  /\ pc = "train_step"
  /\ mode' = model_train(mode)
  /\ pc' = "zero_grad"
  /\ UNCHANGED <<cfgvars, num_batch, err, loopvars, data, params, grad,
                 opt_steps, train_out, valid_out, outvars, histvars>>

\* line 98: optimizer.zero_grad()
ZeroGrad ==
  /\ pc = "zero_grad"
  /\ grad' = zero_grad(grad)
  /\ pc' = "backward"
  /\ UNCHANGED <<cfgvars, num_batch, err, loopvars, data, mode, params,
                 opt_steps, train_out, valid_out, outvars, histvars>>

\* line 99: loss.backward()
Backward ==
  /\ pc = "backward"
  /\ grad' = backward(grad, TrainCall)
  /\ pc' = "opt_step"
  /\ UNCHANGED <<cfgvars, num_batch, err, loopvars, data, mode, params,
                 opt_steps, train_out, valid_out, outvars, histvars>>

\* lines 100-101 and 60-61: optimizer.step() applies the accumulated
\* gradients; the returned accuracy and loss were computed by the forward
\* pass, on the parameters before the update
OptimizerStep ==
  /\ pc = "opt_step"
  /\ params' = params + 1
  /\ opt_steps' = opt_steps + 1
  /\ updates' = Append(updates, grad)
  /\ train_out' = [step |-> global_step, params |-> params]
  /\ pc' = "save"
  /\ UNCHANGED <<cfgvars, num_batch, err, loopvars, data, mode, grad,
                 valid_out, outvars, steps, saves, valid_draws, valid_calls>>

\* ---- checkpoint writer (lines 63-64) ------------------------------------

SaveModel ==
  /\ pc = "save"
  /\ IF CkptDue(global_step)
       THEN LET name == CkptName(global_step, epoch_idx, iter_idx) IN
            /\ files' = (name :> state_dict) @@ files
            /\ saves' = Append(saves, [step |-> global_step, name |-> name,
                                       content |-> state_dict, mode |-> mode,
                                       valid_calls |-> valid_calls,
                                       logged |-> Len(printed)])
       ELSE UNCHANGED <<files, saves>>
  /\ pc' = "summary"
  /\ UNCHANGED <<cfgvars, num_batch, err, loopvars, data, modelvars,
                 train_out, valid_out, log, printed, steps, updates,
                 valid_draws, valid_calls>>

\* ---- metric logger (lines 66-84) ----------------------------------------

\* line 66: if global_step % summary_step != 0: continue
SummaryCheckBreak ==
  /\ pc = "summary"
  /\ pc' = IF SummaryDue(global_step) THEN "valid_loop" ELSE "epoch"
  /\ UNCHANGED <<cfgvars, num_batch, err, loopvars, data, modelvars,
                 train_out, valid_out, outvars, histvars>>

SummaryCheck ==
  /\ pc = "summary"
  /\ pc' = IF SummaryDue(global_step) THEN "valid_loop" ELSE "iter"
  /\ UNCHANGED <<cfgvars, num_batch, err, loopvars, data, modelvars,
                 train_out, valid_out, outvars, histvars>>

\* lines 67-69: for (data, target) in valid_loader: first batch of a fresh
\* pass; a pass that yields nothing falls through to line 74
ValidDraw ==
  /\ pc = "valid_loop"
  /\ LET b == ValidFirstBatch(valid_set, batch_size) IN
     IF b > 0
       THEN /\ data' = b
            /\ valid_draws' = valid_draws + 1
            /\ pc' = "valid_step"
       ELSE /\ pc' = "log"
            /\ UNCHANGED <<data, valid_draws>>
  /\ UNCHANGED <<cfgvars, num_batch, err, loopvars, modelvars, train_out,
                 valid_out, outvars, steps, saves, updates, valid_calls>>

\* valid_step (lines 105-114) and lines 70-72: model.eval(), forward pass,
\* loss and accuracy; no backward, no optimizer call; then break
ValidStepUpdating ==
  /\ pc = "valid_step"
  /\ mode' = model_eval(mode)
  /\ grad' = backward(zero_grad(grad), 0)
  /\ params' = params + 1
  /\ opt_steps' = opt_steps + 1
  /\ valid_out' = [step |-> global_step, params |-> params]
  /\ valid_calls' = valid_calls + 1
  /\ pc' = "log"
  /\ UNCHANGED <<cfgvars, num_batch, err, loopvars, data,
                 train_out, outvars, steps, saves, updates, valid_draws>>

ValidStep ==
  /\ pc = "valid_step"
  /\ mode' = model_eval(mode)
  /\ valid_out' = [step |-> global_step, params |-> params]
  /\ valid_calls' = valid_calls + 1
  /\ pc' = "log"
  /\ UNCHANGED <<cfgvars, num_batch, err, loopvars, data, params, grad,
                 opt_steps, train_out, outvars, steps, saves, updates,
                 valid_draws>>

\* one add_scalars record (lines 78-84)
Scalars(group) == [group |-> group, step |-> global_step,
                   train |-> train_out, valid |-> valid_out]

\* lines 74-84: the two prints and the three add_scalars; reading valid_loss
\* while it is unbound raises UnboundLocalError
LogSummary ==
  /\ pc = "log"
  /\ IF valid_out = Unassigned
       THEN /\ pc' = "failed"
            /\ err' = "UnboundLocalError"
            /\ UNCHANGED <<log, printed>>
       ELSE /\ printed' = Append(printed, global_step)
            /\ log' = log \o <<Scalars("loss"), Scalars("seq_acc"), Scalars("dt_sec")>>
            /\ pc' = "iter"
            /\ err' = err
  /\ UNCHANGED <<cfgvars, num_batch, loopvars, data, modelvars, train_out,
                 valid_out, files, histvars>>

\* ---- specification ------------------------------------------------------

Next ==
  \/ Setup
  \/ EpochNext
  \/ IterNext
  \/ TrainForward
  \/ ZeroGrad
  \/ Backward
  \/ OptimizerStep
  \/ SaveModel
  \/ SummaryCheck
  \/ ValidDraw
  \/ ValidStep
  \/ LogSummary

Spec == Init /\ [][Next]_vars

\* main() runs on a single thread that is never blocked for ever: whenever a
\* statement is next, it is eventually executed
FairSpec == Spec /\ WF_vars(Next)

\* ---- properties ---------------------------------------------------------

\* main() is inside the body of the inner loop, at or before the given place
InTrainStep == pc \in {"train_step", "zero_grad", "backward", "opt_step"}
BeforeSaveDone == InTrainStep \/ pc = "save"
InBody == BeforeSaveDone \/ pc \in {"summary", "valid_loop", "valid_step", "log"}

\* number of started iterations whose checkpoint decision / whose logging
\* decision (with the logging itself) lies behind main()
SaveChecked == IF BeforeSaveDone THEN Len(steps) - 1 ELSE Len(steps)
LogChecked == IF InBody THEN Len(steps) - 1 ELSE Len(steps)

StepsOf(seq) == [k \in DOMAIN seq |-> seq[k].step]
GroupOf(g) == SelectSeq(log, LAMBDA r : r.group = g)

\* C1: a checkpoint file is written at global step g iff g % ckpt_step = 0
\* (at 0, ckpt_step, 2*ckpt_step, ...), once per such step; the names of any
\* two firings differ, so every file still holds what its own firing wrote
\* and the set of files only grows.
C1_CheckpointSchedule ==
  /\ StepsOf(saves) = SelectSeq(SubSeq(steps, 1, SaveChecked),
                                LAMBDA g : g % ckpt_step = 0)
  /\ \A k \in DOMAIN saves : saves[k].step = (k - 1) * ckpt_step
  /\ \A j, k \in DOMAIN saves : j # k => saves[j].name # saves[k].name
  /\ DOMAIN files = {saves[k].name : k \in DOMAIN saves}
  /\ Cardinality(DOMAIN files) = Len(saves)
  /\ \A k \in DOMAIN saves : files[saves[k].name] = saves[k].content

C1_Witness ==
  /\ pc = "done" /\ ckpt_step = 2 /\ num_epochs = 2
  /\ \E k \in DOMAIN saves : saves[k].step >= 10
  /\ \E k \in DOMAIN steps : steps[k] % ckpt_step # 0

\* C2: a logging event (valid_step, printed summary, one record for each of
\* loss / seq_acc / dt_sec keyed by the global step) happens at global step g
\* iff g % summary_step = 0, once per such step, whether or not a checkpoint
\* was written at g.
C2_LoggingSchedule ==
  LET due == SelectSeq(SubSeq(steps, 1, LogChecked),
                       LAMBDA g : g % summary_step = 0) IN
  /\ printed = due
  /\ StepsOf(GroupOf("loss")) = due
  /\ StepsOf(GroupOf("seq_acc")) = due
  /\ StepsOf(GroupOf("dt_sec")) = due
  /\ Len(log) = 3 * Len(due)
  /\ valid_calls = Len(due) + (IF pc = "log" THEN 1 ELSE 0)
  /\ \A k \in DOMAIN printed : printed[k] = (k - 1) * summary_step

C2_Witness ==
  /\ pc = "done" /\ summary_step = 2 /\ ckpt_step = 3
  /\ \E k \in DOMAIN printed : printed[k] % ckpt_step # 0
  /\ \E k \in DOMAIN printed : printed[k] > 0 /\ printed[k] % ckpt_step = 0
  /\ \E k \in DOMAIN saves : saves[k].step % summary_step # 0

\* C3: in every iteration global_step = epoch_idx * num_batch + iter_idx with
\* 0 <= iter_idx < num_batch, and the global steps of the run are 0, 1, 2, ...
\* in this order, across epoch boundaries too: none repeated, none skipped.
C3_GlobalStep ==
  /\ InBody => /\ global_step = epoch_idx * num_batch + iter_idx
               /\ 0 <= iter_idx /\ iter_idx < num_batch
               /\ global_step = steps[Len(steps)]
  /\ \A k \in DOMAIN steps : steps[k] = k - 1

C3_Witness ==
  /\ InBody /\ epoch_idx = 1 /\ iter_idx >= 1
  /\ train_set % batch_size # 0

\* C4: every train_step call performs exactly one optimizer update, in the
\* order zero_grad, backward, step; the gradients applied by call k come from
\* call k alone.
C4_TrainStepUpdate ==
  /\ Len(updates) = Len(steps) - (IF InTrainStep THEN 1 ELSE 0)
  /\ params = Len(updates) /\ opt_steps = Len(updates)
  /\ pc = "backward" => grad = {}
  /\ pc = "opt_step" => grad = {TrainCall}
  /\ \A k \in DOMAIN updates : updates[k] = {k}

C4_Witness ==
  /\ pc = "opt_step" /\ Len(updates) >= 2 /\ valid_calls >= 1

\* C5: valid_step leaves the parameters, the accumulated gradients and the
\* optimizer state as they are and sets the mode to evaluation; the parameters
\* change through the optimizer step of train_step only.
C5_ValidStepFrame ==
  /\ [][pc = "valid_step" => /\ params' = params
                             /\ grad' = grad
                             /\ opt_steps' = opt_steps
                             /\ mode' = "eval"]_vars
  /\ [](params = Len(updates))

C5_Witness ==
  /\ pc = "log" /\ valid_calls >= 2 /\ mode = "eval" /\ params >= 2 /\ grad # {}

\* C6 (as stated): one validation batch and one valid_step per logging
\* event, and the batch has 4 examples whenever the validation split has at
\* least 4, whatever the training batch size.
C6_BatchOfFour ==
  /\ valid_draws = valid_calls + (IF pc = "valid_step" THEN 1 ELSE 0)
  /\ valid_calls = Len(printed) + (IF pc = "log" THEN 1 ELSE 0)
  /\ (pc = "valid_step" /\ valid_set >= 4) => data = 4

\* C6 (amended): one validation batch and one valid_step per logging event;
\* the batch is drawn with the training batch size: it has batch_size
\* examples when the validation split has at least batch_size, and
\* len(valid_set) examples otherwise.
C6_ValidBatch ==
  /\ valid_draws = valid_calls + (IF pc = "valid_step" THEN 1 ELSE 0)
  /\ valid_calls = Len(printed) + (IF pc = "log" THEN 1 ELSE 0)
  /\ pc = "valid_step" =>
       /\ valid_set >= batch_size => data = batch_size
       /\ valid_set < batch_size => data = valid_set

C6_Witness ==
  /\ pc = "valid_step" /\ valid_set >= 4 /\ batch_size = 2 /\ data = 2
  /\ valid_calls >= 1

\* C7: num_epochs = 1, batch_size = 4, 2 train examples, ckpt_step = 1: a
\* completed run made exactly one training step, on a batch of 2 examples,
\* with global_step 0, and wrote exactly one checkpoint, named 0_0-0.ckpt;
\* the only run that does not complete is the one whose validation loader
\* cannot be built (empty validation split).
C7_Scenario ==
  (num_epochs = 1 /\ batch_size = 4 /\ train_set = 2 /\ ckpt_step = 1) =>
    /\ pc = "failed" => (valid_set = 0 /\ err = "ValueError")
    /\ pc = "train_step" => (data = 2 /\ global_step = 0 /\ remaining = 0)
    /\ pc = "done" =>
         /\ steps = <<0>> /\ Len(updates) = 1 /\ params = 1
         /\ Len(saves) = 1
         /\ saves[1].step = 0
         /\ DOMAIN files = {<<"0", "_", "0", "-", "0", ".ckpt">>}

C7_Witness ==
  /\ num_epochs = 1 /\ batch_size = 4 /\ train_set = 2 /\ ckpt_step = 1
  /\ pc = "done" /\ Len(updates) = 1

\* C8: once entered, the training loop terminates, and when it has, exactly
\* num_epochs epochs, num_epochs * num_batch training steps, have run: no
\* metric, checkpoint or logging event ends it earlier or extends it.
C8_Termination ==
  /\ (pc = "epoch") ~> (pc = "done")
  /\ [](pc = "done" => /\ range_pos = num_epochs
                       /\ Len(steps) = num_epochs * num_batch
                       /\ Len(updates) = num_epochs * num_batch
                       /\ num_batch * batch_size >= train_set
                       /\ (num_batch - 1) * batch_size < train_set)
  /\ [](pc = "failed" => Len(steps) = 0)

C8_Witness ==
  /\ pc = "done" /\ num_epochs = 2 /\ num_batch >= 2 /\ summary_step = 2
  /\ Len(printed) >= 2 /\ Len(saves) >= 1

\* C9: every summary record of global step g carries validation values that a
\* valid_step of the same logging event computed on the parameters the
\* train_step of step g produced; no record carries values of an earlier
\* event, and no unassigned validation value is ever read (with an empty
\* validation split the loaders cannot be built and nothing is logged).
C9_FreshValidation ==
  /\ err # "UnboundLocalError"
  /\ pc = "log" => (valid_out # Unassigned /\ valid_out.step = global_step)
  /\ valid_set = 0 => (Len(log) = 0 /\ pc \in {"setup", "failed"})
  /\ \A k \in DOMAIN log :
       /\ log[k].valid # Unassigned
       /\ log[k].valid.step = log[k].step
       /\ log[k].train.step = log[k].step
       /\ log[k].valid.params = log[k].train.params + 1
       /\ log[k].valid.params = log[k].step + 1

C9_Witness ==
  /\ Len(log) >= 6 /\ valid_set = 1 /\ batch_size >= 2 /\ summary_step = 2

\* C10: within an iteration the order is train_step, checkpoint write,
\* validation and logging: the checkpoint of global step g holds the
\* parameters after g + 1 updates (at step 0 it is not the initial model) and
\* is written in training mode, before the valid_step of that iteration.
C10_CheckpointOrder ==
  /\ \A k \in DOMAIN saves :
       /\ saves[k].content = saves[k].step + 1
       /\ files[saves[k].name] = saves[k].step + 1
       /\ saves[k].mode = "train"
       /\ saves[k].valid_calls = saves[k].logged
  /\ pc = "save" => Len(updates) = Len(steps)
  /\ pc \in {"valid_loop", "valid_step", "log"} => SaveChecked = Len(steps)

C10_Witness ==
  /\ Len(saves) >= 2 /\ saves[2].valid_calls >= 1 /\ saves[1].step = 0
  /\ pc = "valid_step"

====
